---- MODULE Spec2Model ----
(***************************************************************************)
(* pg-maintenance: the batch deletion engine of cmd/main/main.go (the pgx  *)
(* variant, lines 1-226) as a state machine.                               *)
(*                                                                         *)
(* Strings are sequences of one-character strings, so that strings.Split,  *)
(* the identifier validator and strconv.Atoi are computed character by     *)
(* character.  Time is counted in whole days.  The database is a map from  *)
(* table name to the set of rows durably stored; rows removed by a         *)
(* statement of an open transaction are held in `pending` until commit.    *)
(***************************************************************************)
EXTENDS Integers, Sequences, FiniteSets, TLC

VARIABLES
    tables,           \* --table flags, in order (arrayFlags)
    batchSize,        \* --batch
    timeout,          \* --timeout (0 = disabled)
    now,              \* time.Now() read at line 35
    pc,               \* position of main()
    idx,              \* 1-based position of the range loop over tables
    tableName,        \* function-scope variable, line 51
    timestampColumn,  \* function-scope variable, line 52
    days,             \* function-scope variable, line 53
    args,             \* bound parameters of the statement
    query,            \* the statement: [table, column, limit]
    ctx,              \* the context in use: [kind, st]
    cancel,           \* "nil" or "set": the cancel func of the loop
    conn,             \* TRUE once pgx.Connect returned a connection
    txn,              \* state of the transaction of the current iteration
    pending,          \* rows removed inside the open transaction
    rowsAffected,     \* result.RowsAffected() of the last statement
    db,               \* durable contents: table name -> set of rows
    calls,            \* history of the calls made on the connection
    log,              \* what the program printed
    err,              \* which failure ended the run ("none" while running)
    jobs              \* history: per list position, the job the loop started

vars == <<tables, batchSize, timeout, now, pc, idx, tableName, timestampColumn,
          days, args, query, ctx, cancel, conn, txn, pending, rowsAffected,
          db, calls, log, err, jobs>>

flagVars == <<tables, batchSize, timeout, now>>
parseVars == <<tableName, timestampColumn, days, args, query>>

----------------------------------------------------------------------------
(* Bounds of the model *)

MaxTables == 2
MaxBatch == 2

(* The instant the run starts, in days *)
Now == 20

----------------------------------------------------------------------------
(* Characters and strings *)

Code ==
    (" " :> 32) @@ ("-" :> 45) @@ ("0" :> 48) @@ ("1" :> 49) @@ ("5" :> 53) @@
    (":" :> 58) @@ ("_" :> 95) @@ ("a" :> 97) @@ ("b" :> 98) @@ ("c" :> 99) @@
    ("d" :> 100) @@ ("e" :> 101) @@ ("r" :> 114) @@ ("t" :> 116) @@
    ("u" :> 117) @@ ("x" :> 120) @@ ("+" :> 43)

CreatedAt == <<"c", "r", "e", "a", "t", "e", "d", "_", "a", "t">>

\* strings.Split(s, ":")
RECURSIVE Split(_)
Split(s) ==
    IF \A i \in 1..Len(s) : s[i] # ":"
    THEN <<s>>
    ELSE LET k == CHOOSE i \in 1..Len(s) :
                     s[i] = ":" /\ \A j \in 1..(i - 1) : s[j] # ":"
         IN  <<SubSeq(s, 1, k - 1)>> \o Split(SubSeq(s, k + 1, Len(s)))

\* pg.IsValidTName: every rune is a letter, a digit or an underscore
IsValidTName(name) ==
    \A i \in 1..Len(name) :
        LET r == Code[name[i]]
        IN  ~(/\ ~(r >= 65 /\ r <= 90)
              /\ ~(r >= 97 /\ r <= 122)
              /\ ~(r >= 48 /\ r <= 57)
              /\ r # 95)

IsDigit(ch) == Code[ch] >= 48 /\ Code[ch] <= 57

RECURSIVE DigitsValue(_)
DigitsValue(s) ==
    IF Len(s) = 0 THEN 0
    ELSE DigitsValue(SubSeq(s, 1, Len(s) - 1)) * 10 + (Code[s[Len(s)]] - 48)

\* strconv.Atoi: optional sign, then one or more decimal digits
Atoi(s) ==
    LET signed == Len(s) > 0 /\ s[1] \in {"-", "+"}
        body == IF signed THEN SubSeq(s, 2, Len(s)) ELSE s
        ok == Len(body) > 0 /\ \A i \in 1..Len(body) : IsDigit(body[i])
        mag == IF ok THEN DigitsValue(body) ELSE 0
    IN  [ok |-> ok,
         val |-> IF signed /\ s[1] = "-" THEN 0 - mag ELSE mag]

\* time.Time.AddDate(0, 0, d), in days
AddDate(t, d) == t + d

----------------------------------------------------------------------------
(* The database the run works on *)

ColC == <<"c">>

Row(id, c, created) == [id |-> id, cols |-> (ColC :> c) @@ (CreatedAt :> created)]

InitDB ==
    (<<"t">> :> {Row(1, Now - 10, Now - 10), Row(2, Now - 5, Now - 5),
                 Row(3, Now - 5, Now - 5), Row(4, Now - 1, Now - 8)}) @@
    (<<"u">> :> {Row(5, Now - 3, Now - 3), Row(6, Now + 1, Now + 1)})

Columns == {ColC, CreatedAt}

\* variant: WHERE <column> <= $1
QualifiesLe(row, column, cutoff) == row.cols[column] <= cutoff

\* WHERE <column> < $1
Qualifies(row, column, cutoff) == row.cols[column] < cutoff

Qualifying(rows, column, cutoff) == {r \in rows : Qualifies(r, column, cutoff)}

Min(a, b) == IF a < b THEN a ELSE b

\* The statement is rejected when it names no existing table or column
StatementValid(d, q) == q.table \in DOMAIN d /\ q.column \in Columns

\* variant: the subquery without its ORDER BY
SelectedUnordered(d, q, a) ==
    LET qual == Qualifying(d[q.table], q.column, a[1])
    IN  IF ~q.limit THEN {qual}
        ELSE {S \in SUBSET qual : Cardinality(S) = Min(a[2], Cardinality(qual))}

\* The sets of rows the subquery may return: ORDER BY <column> [LIMIT $2]
Selected(d, q, a) ==
    LET qual == Qualifying(d[q.table], q.column, a[1])
    IN  IF ~q.limit THEN {qual}
        ELSE {S \in SUBSET qual :
                /\ Cardinality(S) = Min(a[2], Cardinality(qual))
                /\ \A s \in S : \A r \in qual \ S :
                      s.cols[q.column] <= r.cols[q.column]}

----------------------------------------------------------------------------
(* Inputs *)

SpecPool ==
    { <<"t">>,
      <<"u">>,
      <<"t", ":", "c", ":", "5">>,
      <<"u", ":", "c", ":", "-", "1">>,
      <<"b", " ", "d">>,
      <<"t", ":", "c", ":", "x">>,
      <<"t", ":", "c", ":", "5", ":", "5">>,
      <<":", ":", "5">> }

TableLists == UNION {[1..n -> SpecPool] : n \in 1..MaxTables}

BatchSizes == (0 - 1)..MaxBatch

Timeouts == {0, 1}

----------------------------------------------------------------------------
(* Helpers of the actions *)

Call(op, i, ok, rows) == [op |-> op, idx |-> i, ok |-> ok, rows |-> rows]

EmptyQuery == [table |-> <<>>, column |-> <<>>, limit |-> FALSE]

Msg(what, about, n) == [what |-> what, about |-> about, n |-> n]

\* log.Fatal*: print and os.Exit(1); deferred functions do not run
Fatal(kind) ==
    /\ pc' = "fatal"
    /\ err' = kind
    /\ log' = Append(log, Msg("fatal", kind, 0))

\* variant: with the timeout disabled the 10 s context of the ping is kept
LoopContextKeepsPing(t) ==
    IF t > 0 THEN [kind |-> "batch", st |-> "live"]
    ELSE [kind |-> "ping", st |-> "live"]

\* variant: the iterations keep the context they find, the one made for
\* the ping or for the iteration before
LoopContextShared(t) ==
    IF t > 0 THEN ctx ELSE [kind |-> "background", st |-> "none"]

\* the context of one loop iteration, lines 181-186
LoopContext(t) ==
    IF t > 0 THEN [kind |-> "batch", st |-> "live"]
    ELSE [kind |-> "background", st |-> "none"]

LoopCancel(t) == IF t > 0 THEN "set" ELSE "nil"

\* variant: a rollback that also undoes the batches committed before
RollbackAll(d, p) == InitDB

\* what a transaction's rollback leaves of the durable rows
Rollback(d, p) == d

\* what a transaction's commit leaves of the durable rows
Commit(d, p) == [t \in DOMAIN d |-> d[t] \ p]

\* variant: batchSize <= 0 in place of batchSize == 0
LoopEndsNonPositive(n, b) == n = 0 \/ b <= 0

\* variant: a batch shorter than the batch size also ends the loop
LoopEndsOnShortBatch(n, b) == n = 0 \/ b = 0 \/ n < b

\* variant: batchSize >= 0 in place of batchSize == 0
LoopEndsAlways(n, b) == n = 0 \/ b >= 0

\* variant: the break of the unbounded mode is missing
LoopEndsOnZeroOnly(n, b) == n = 0

\* lines 213-223: whether the loop of the table ends after a committed batch
LoopEnds(n, b) == n = 0 \/ b = 0

----------------------------------------------------------------------------
(* The run *)

Init ==
    /\ tables \in TableLists
    /\ batchSize \in BatchSizes
    /\ timeout \in Timeouts
    /\ now = Now
    /\ pc = "connect"
    /\ idx = 1
    /\ tableName = <<>>
    /\ timestampColumn = <<>>
    /\ days = 0
    /\ args = <<>>
    /\ query = EmptyQuery
    /\ ctx = [kind |-> "background", st |-> "none"]
    /\ cancel = "nil"
    /\ conn = FALSE
    /\ txn = "none"
    /\ pending = {}
    /\ rowsAffected = 0
    /\ db = InitDB
    /\ calls = <<>>
    /\ log = <<>>
    /\ err = "none"
    /\ jobs = <<>>

\* line 89: pgx.Connect
Connect ==
    /\ pc = "connect"
    /\ \E ok \in BOOLEAN :
         /\ calls' = Append(calls, Call("connect", 0, ok, {}))
         /\ IF ok
            THEN /\ conn' = TRUE
                 /\ pc' = "ping"
                 /\ ctx' = [kind |-> "ping", st |-> "live"]
                 /\ UNCHANGED <<log, err>>
            ELSE /\ Fatal("connect")
                 /\ UNCHANGED <<conn, ctx>>
    /\ UNCHANGED <<flagVars, parseVars, idx, cancel, txn, pending,
                   rowsAffected, db, jobs>>

\* variant: the result of conn.Ping is not tested
PingUnchecked ==
    /\ pc = "ping"
    /\ \E ok \in BOOLEAN :
         /\ ok => ctx.st = "live"
         /\ calls' = Append(calls, Call("ping", 0, ok, {}))
         /\ pc' = "loop"
         /\ log' = Append(log, Msg("connected", "", 0))
         /\ UNCHANGED err
    /\ UNCHANGED <<flagVars, parseVars, idx, ctx, cancel, conn, txn, pending,
                   rowsAffected, db, jobs>>

\* lines 106-113: conn.Ping under the 10 s context
Ping ==
    /\ pc = "ping"
    /\ \E ok \in BOOLEAN :
         /\ ok => ctx.st = "live"
         /\ calls' = Append(calls, Call("ping", 0, ok, {}))
         /\ IF ok
            THEN /\ pc' = "loop"
                 /\ log' = Append(log, Msg("connected", "", 0))
                 /\ UNCHANGED err
            ELSE Fatal("ping")
    /\ UNCHANGED <<flagVars, parseVars, idx, ctx, cancel, conn, txn, pending,
                   rowsAffected, db, jobs>>

\* the deadline of the context in use elapses
Expire ==
    /\ pc \in {"ping", "exec", "commit"}
    /\ ctx.st = "live"
    /\ ctx' = [ctx EXCEPT !.st = "expired"]
    /\ UNCHANGED <<flagVars, parseVars, pc, idx, cancel, conn, txn, pending,
                   rowsAffected, db, calls, log, err, jobs>>

\* lines 115-178: the next table spec is split, validated and turned into
\* the statement and its bound parameters; past the last spec main returns
ParseTable ==
    /\ pc = "loop"
    /\ idx <= Len(tables)
    /\ LET table == tables[idx]
           parts == Split(table)
           partCnt == Len(parts)
           column == IF partCnt > 1 /\ parts[2] # <<>> THEN parts[2]
                     ELSE CreatedAt
           parsed == IF partCnt > 2 THEN Atoi(parts[3])
                     ELSE [ok |-> TRUE, val |-> 0]
           newDays == IF partCnt > 2 THEN parsed.val
                      ELSE IF partCnt > 1 THEN 0 ELSE days
           newArgs == IF batchSize > 0
                      THEN <<AddDate(now, 0 - newDays), batchSize>>
                      ELSE <<AddDate(now, 0 - newDays)>>
           newQuery == [table |-> parts[1], column |-> column,
                        limit |-> batchSize > 0]
       IN  IF partCnt < 1 \/ partCnt > 3
           THEN /\ log' = Append(log, Msg("invalid_format", "", idx))
                /\ idx' = idx + 1
                /\ UNCHANGED <<parseVars, pc, err, jobs>>
           ELSE IF ~IsValidTName(parts[1])
           THEN /\ tableName' = parts[1]
                /\ Fatal("config")
                /\ UNCHANGED <<timestampColumn, days, args, query, idx, jobs>>
           ELSE IF partCnt > 1 /\ parts[2] # <<>> /\ ~IsValidTName(parts[2])
           THEN /\ tableName' = parts[1]
                /\ timestampColumn' = parts[2]
                /\ Fatal("config")
                /\ UNCHANGED <<days, args, query, idx, jobs>>
           ELSE IF partCnt > 2 /\ ~parsed.ok
           THEN /\ tableName' = parts[1]
                /\ timestampColumn' = column
                /\ days' = parsed.val
                /\ Fatal("config")
                /\ UNCHANGED <<args, query, idx, jobs>>
           ELSE /\ tableName' = parts[1]
                /\ timestampColumn' = column
                /\ days' = newDays
                /\ args' = newArgs
                /\ query' = newQuery
                /\ log' = Append(log, Msg("cleaning", "", newDays))
                /\ jobs' = (idx :> [table |-> parts[1], column |-> column,
                                    days |-> newDays, cutoff |-> newArgs[1],
                                    qual |-> IF StatementValid(db, newQuery)
                                             THEN Qualifying(db[parts[1]],
                                                             column, newArgs[1])
                                             ELSE {}]) @@ jobs
                /\ pc' = "begin"
                /\ UNCHANGED <<idx, err>>
    /\ UNCHANGED <<flagVars, ctx, cancel, conn, txn, pending, rowsAffected,
                   db, calls>>

\* line 226: main returns; the deferred cancel and conn.Close run
Return ==
    /\ pc = "loop"
    /\ idx > Len(tables)
    /\ pc' = "done"
    /\ conn' = FALSE
    /\ calls' = Append(calls, Call("close", 0, TRUE, {}))
    /\ UNCHANGED <<flagVars, parseVars, idx, ctx, cancel, txn, pending,
                   rowsAffected, db, log, err, jobs>>

\* variant: every iteration reads the clock again, a day having passed, and
\* binds the cutoff anew
BeginOkRereadsClock ==
    /\ pc = "begin"
    /\ ctx' = LoopContext(timeout)
    /\ cancel' = LoopCancel(timeout)
    /\ txn' = "open"
    /\ pending' = {}
    /\ args' = [args EXCEPT ![1] = AddDate(now + 1, 0 - days)]
    /\ calls' = Append(calls, Call("begin", idx, TRUE, {}))
    /\ log' = Append(log, Msg("query", "", Len(args)))
    /\ pc' = "exec"
    /\ UNCHANGED <<flagVars, tableName, timestampColumn, days, query, idx,
                   conn, rowsAffected, db, err, jobs>>

\* lines 181-194: a new context, conn.BeginTx succeeds, the statement is logged
BeginOk ==
    /\ pc = "begin"
    /\ ctx' = LoopContext(timeout)
    /\ cancel' = LoopCancel(timeout)
    /\ txn' = "open"
    /\ pending' = {}
    /\ calls' = Append(calls, Call("begin", idx, TRUE, {}))
    /\ log' = Append(log, Msg("query", "", Len(args)))
    /\ pc' = "exec"
    /\ UNCHANGED <<flagVars, parseVars, idx, conn, rowsAffected, db, err, jobs>>

\* lines 188-192: conn.BeginTx fails
BeginFail ==
    /\ pc = "begin"
    /\ ctx' = LoopContext(timeout)
    /\ cancel' = LoopCancel(timeout)
    /\ txn' = "none"
    /\ calls' = Append(calls, Call("begin", idx, FALSE, {}))
    /\ Fatal("begin")
    /\ UNCHANGED <<flagVars, parseVars, idx, conn, pending, rowsAffected, db,
                   jobs>>

\* variant: the statement runs on a connection of its own, outside the
\* transaction, and its deletions are durable at once
ExecOkOutsideTx ==
    /\ pc = "exec"
    /\ ctx.st # "expired"
    /\ StatementValid(db, query)
    /\ \E S \in Selected(db, query, args) :
         /\ pending' = S
         /\ db' = Commit(db, S)
         /\ rowsAffected' = Cardinality(S)
         /\ calls' = Append(calls, Call("exec", idx, TRUE, S))
    /\ pc' = "commit"
    /\ UNCHANGED <<flagVars, parseVars, idx, ctx, cancel, conn, txn, log,
                   err, jobs>>

\* variant: the statement is not cancelled when the deadline has elapsed
ExecOkPastDeadline ==
    /\ pc = "exec"
    /\ StatementValid(db, query)
    /\ \E S \in Selected(db, query, args) :
         /\ pending' = S
         /\ rowsAffected' = Cardinality(S)
         /\ calls' = Append(calls, Call("exec", idx, TRUE, S))
    /\ pc' = "commit"
    /\ UNCHANGED <<flagVars, parseVars, idx, ctx, cancel, conn, txn, db, log,
                   err, jobs>>

\* lines 196-203: conn.Exec succeeds inside the open transaction
ExecOk ==
    /\ pc = "exec"
    /\ ctx.st # "expired"
    /\ StatementValid(db, query)
    /\ \E S \in Selected(db, query, args) :
         /\ pending' = S
         /\ rowsAffected' = Cardinality(S)
         /\ calls' = Append(calls, Call("exec", idx, TRUE, S))
    /\ pc' = "commit"
    /\ UNCHANGED <<flagVars, parseVars, idx, ctx, cancel, conn, txn, db, log,
                   err, jobs>>

\* variant: conn.Exec fails; tx.Rollback, then on to the next table
ExecFailContinue ==
    /\ pc = "exec"
    /\ txn' = "rolledback"
    /\ pending' = {}
    /\ db' = Rollback(db, pending)
    /\ calls' = calls \o <<Call("exec", idx, FALSE, {}),
                            Call("rollback", idx, ctx.st # "expired", {})>>
    /\ err' = "exec"
    /\ log' = Append(log, Msg("fatal", "exec", 0))
    /\ pc' = "loop"
    /\ idx' = idx + 1
    /\ UNCHANGED <<flagVars, parseVars, ctx, cancel, conn, rowsAffected, jobs>>

\* lines 196-201: conn.Exec fails; tx.Rollback, then log.Fatalf
ExecFail ==
    /\ pc = "exec"
    /\ txn' = "rolledback"
    /\ pending' = {}
    /\ db' = Rollback(db, pending)
    /\ calls' = calls \o <<Call("exec", idx, FALSE, {}),
                            Call("rollback", idx, ctx.st # "expired", {})>>
    /\ Fatal("exec")
    /\ UNCHANGED <<flagVars, parseVars, idx, ctx, cancel, conn, rowsAffected,
                   jobs>>

\* lines 205-223: tx.Commit succeeds, the context is cancelled, and the loop
\* either ends (next table) or starts another iteration
CommitOk ==
    /\ pc = "commit"
    /\ ctx.st # "expired"
    /\ db' = Commit(db, pending)
    /\ txn' = "committed"
    /\ pending' = {}
    /\ calls' = Append(calls, Call("commit", idx, TRUE, pending))
    /\ ctx' = IF cancel # "nil" THEN [ctx EXCEPT !.st = "cancelled"] ELSE ctx
    /\ log' = Append(log, IF rowsAffected = 0
                          THEN Msg("no_more_rows", "", 0)
                          ELSE Msg("deleted", "", rowsAffected))
    /\ IF LoopEnds(rowsAffected, batchSize)
       THEN /\ idx' = idx + 1
            /\ pc' = "loop"
       ELSE /\ pc' = "begin"
            /\ UNCHANGED idx
    /\ UNCHANGED <<flagVars, parseVars, cancel, conn, rowsAffected, err, jobs>>

\* variant: the batch is reported before the result of tx.Commit is tested
CommitFailReported ==
    /\ pc = "commit"
    /\ calls' = Append(calls, Call("commit", idx, FALSE, {}))
    /\ pc' = "fatal"
    /\ err' = "commit"
    /\ log' = log \o <<Msg("deleted", "", rowsAffected),
                        Msg("fatal", "commit", 0)>>
    /\ UNCHANGED <<flagVars, parseVars, idx, ctx, cancel, conn, txn, pending,
                   rowsAffected, db, jobs>>

\* variant: tx.Commit fails; the failure is logged and the next table follows
CommitFailContinue ==
    /\ pc = "commit"
    /\ calls' = Append(calls, Call("commit", idx, FALSE, {}))
    /\ log' = Append(log, Msg("fatal", "commit", 0))
    /\ pc' = "loop"
    /\ idx' = idx + 1
    /\ UNCHANGED <<flagVars, parseVars, ctx, cancel, conn, txn, pending,
                   rowsAffected, db, err, jobs>>

\* lines 205-207: tx.Commit fails; log.Fatalf without a rollback
CommitFail ==
    /\ pc = "commit"
    /\ calls' = Append(calls, Call("commit", idx, FALSE, {}))
    /\ Fatal("commit")
    /\ UNCHANGED <<flagVars, parseVars, idx, ctx, cancel, conn, txn, pending,
                   rowsAffected, db, jobs>>

Next ==
    \/ Connect
    \/ Ping
    \/ Expire
    \/ ParseTable
    \/ Return
    \/ BeginOk
    \/ BeginFail
    \/ ExecOk
    \/ ExecFail
    \/ CommitOk
    \/ CommitFail

Spec == Init /\ [][Next]_vars

\* runs over well-formed specs of existing tables only
LoopPool ==
    { <<"t">>,
      <<"t", ":", "c", ":", "5">>,
      <<"u", ":", "c", ":", "-", "1">> }

LoopInit == Init /\ \A i \in 1..Len(tables) : tables[i] \in LoopPool

\* the program keeps running: every call on the connection returns
FairSpec == LoopInit /\ [][Next]_vars /\ WF_vars(Next)

----------------------------------------------------------------------------
(* Reading the history *)

DbOps == {"begin", "exec", "commit"}

CallsOf(op, i) == {k \in 1..Len(calls) : calls[k].op = op /\ calls[k].idx = i}

Committed(i) == {k \in CallsOf("commit", i) : calls[k].ok}

\* the rows durably deleted by the loop of list position i
DeletedBy(i) == UNION {calls[k].rows : k \in Committed(i)}

Started(i) == i \in DOMAIN jobs

\* the loop of list position i ran and ended by one of its breaks
Finished(i) == Started(i) /\ idx > i

\* the qualifying rows still stored for the job of list position i
Remaining(i) ==
    IF jobs[i].table \in DOMAIN db /\ jobs[i].column \in Columns
    THEN {r \in db[jobs[i].table] :
            r.cols[jobs[i].column] < jobs[i].cutoff}
    ELSE {}

Ceil(k, b) == (k + b - 1) \div b

----------------------------------------------------------------------------
(* C1: in every state, every row durably deleted by the loop of a table has *)
(* a timestamp-column value strictly below that table's cutoff, the run's   *)
(* start time minus the retention days the loop ran with; every row missing *)
(* from the database was deleted by such a loop. Rows at or above the       *)
(* cutoff are never deleted, for any batch size.                            *)
C1_RetainedRowsNeverDeleted ==
    /\ \A i \in DOMAIN jobs : \A r \in DeletedBy(i) :
          /\ r \in InitDB[jobs[i].table]
          /\ ~(r.cols[jobs[i].column] >= now - jobs[i].days)
    /\ \A t \in DOMAIN db : \A r \in InitDB[t] \ db[t] :
          \E i \in DOMAIN jobs : jobs[i].table = t /\ r \in DeletedBy(i)

\* the run ended, a loop with retention 5 deleted the one older row and the
\* rows dated exactly at the cutoff are still stored
C1_Witness ==
    /\ pc = "done"
    /\ \E i \in DOMAIN jobs :
          /\ jobs[i].days = 5
          /\ Cardinality(DeletedBy(i)) = 1
          /\ \E r \in db[jobs[i].table] :
                r.cols[jobs[i].column] = now - jobs[i].days

(* C2: with batchSize > 0, a loop that ended has deleted exactly the rows   *)
(* that qualified when it started and leaves no qualifying row; and every   *)
(* loop that starts ends, unless an error ends the run.                     *)
C2_ExactAtTermination ==
    \A i \in DOMAIN jobs :
        (batchSize > 0 /\ Finished(i)) =>
            (DeletedBy(i) = jobs[i].qual /\ Remaining(i) = {})

C2_BatchedLoopTerminatesExact ==
    /\ []C2_ExactAtTermination
    /\ (batchSize > 0 /\ pc = "begin")
          ~> (pc \in {"loop", "done"} \/ err # "none")

\* a batched loop over four qualifying rows has ended without any error
C2_Witness ==
    /\ batchSize > 0
    /\ err = "none"
    /\ \E i \in DOMAIN jobs :
          Finished(i) /\ Cardinality(jobs[i].qual) = 4

(* C3 as stated: with batchSize = B > 0 a loop over K qualifying rows       *)
(* commits exactly ceil(K/B) transactions.                                  *)
C3_Original ==
    \A i \in DOMAIN jobs :
        (batchSize > 0 /\ Finished(i)) =>
            Cardinality(Committed(i)) = Ceil(Cardinality(jobs[i].qual), batchSize)

(* C3 amended: with batchSize = B > 0 a loop over K qualifying rows that    *)
(* ended has committed exactly ceil(K/B) transactions that deleted at least *)
(* one row, followed by exactly one final transaction that deleted no row:  *)
(* ceil(K/B) + 1 committed transactions in all.                             *)
C3_CeilPlusTerminatingBatch ==
    \A i \in DOMAIN jobs :
        (batchSize > 0 /\ Finished(i)) =>
            LET K == Cardinality(jobs[i].qual)
                nonEmpty == {k \in Committed(i) : calls[k].rows # {}}
                empty == Committed(i) \ nonEmpty
            IN  /\ Cardinality(nonEmpty) = Ceil(K, batchSize)
                /\ Cardinality(empty) = 1
                /\ \A e \in empty : \A k \in nonEmpty : k < e
                /\ Cardinality(Committed(i)) = Ceil(K, batchSize) + 1

\* K = 4, B = 1..2 (and K = 1 with B = 2): a batched loop has ended
C3_Witness ==
    /\ batchSize > 0
    /\ \E i \in DOMAIN jobs :
          /\ Finished(i)
          /\ Cardinality(jobs[i].qual) >= 3
          /\ Cardinality(Committed(i)) >= 3

(* C4: with batchSize = 0 no table ever has more than one transaction       *)
(* begun; a loop that ended has begun exactly one, and that transaction     *)
(* deleted all K rows that qualified, also for K = 0.                       *)
C4_UnboundedOneTransaction ==
    batchSize = 0 =>
        \A i \in DOMAIN jobs :
            /\ Cardinality(CallsOf("begin", i)) <= 1
            /\ Finished(i) =>
                  /\ Cardinality(CallsOf("begin", i)) = 1
                  /\ Cardinality(Committed(i)) = 1
                  /\ \A k \in Committed(i) : calls[k].rows = jobs[i].qual

\* unbounded mode: one loop ended over several rows, another over none
C4_Witness ==
    /\ batchSize = 0
    /\ pc = "done"
    /\ \E i \in DOMAIN jobs : Finished(i) /\ Cardinality(jobs[i].qual) >= 2
    /\ \E i \in DOMAIN jobs : Finished(i) /\ jobs[i].qual = {}

(* C5: with batchSize > 0, in every state, each row a loop has deleted has  *)
(* a timestamp <= the timestamp of every qualifying row of that loop still  *)
(* stored in the table: the oldest rows go first.                           *)
C5_OldestFirst ==
    batchSize > 0 =>
        \A i \in DOMAIN jobs : \A d \in DeletedBy(i) : \A r \in Remaining(i) :
            d.cols[jobs[i].column] <= r.cols[jobs[i].column]

\* between two batches: some rows deleted, younger qualifying rows remain
C5_Witness ==
    /\ batchSize > 0
    /\ pc = "begin"
    /\ \E i \in DOMAIN jobs :
          /\ DeletedBy(i) # {}
          /\ \E d \in DeletedBy(i) : \E r \in Remaining(i) :
                d.cols[jobs[i].column] < r.cols[jobs[i].column]

(* C6: once a begin, execute or commit has failed, the run has stopped with *)
(* a failure: no begin, execute or commit follows the failed call, and no   *)
(* table later in the list is ever started.                                 *)
C6_StopAtFirstDbError ==
    \A k \in 1..Len(calls) :
        (calls[k].op \in DbOps /\ ~calls[k].ok) =>
            /\ pc = "fatal"
            /\ \A m \in (k + 1)..Len(calls) : calls[m].op \notin DbOps
            /\ \A i \in DOMAIN jobs : i <= calls[k].idx
            /\ idx = calls[k].idx

\* the statement of the first table failed and a well-formed spec follows
C6_Witness ==
    /\ err = "exec"
    /\ idx < Len(tables)
    /\ Len(Split(tables[idx + 1])) <= 3
    /\ IsValidTName(Split(tables[idx + 1])[1])
    /\ StatementValid(db, query)

(* C7: in every state, the rows of every batch that was committed are       *)
(* absent from the database, also after a later fatal error.                *)
C7_CommittedBatchesStay ==
    \A k \in 1..Len(calls) :
        (calls[k].op = "commit" /\ calls[k].ok) =>
            \A t \in DOMAIN db : calls[k].rows \cap db[t] = {}

\* a batch that deleted rows was committed and a later statement failed
C7_Witness ==
    /\ err = "exec"
    /\ \E k \in 1..Len(calls) :
          calls[k].op = "commit" /\ calls[k].ok /\ calls[k].rows # {}

(* C8 as stated: when a begin, execute or commit has failed and the process *)
(* has stopped, the failing batch's transaction is not left open: it was    *)
(* rolled back (or never begun).                                            *)
C8_FailedBatchRolledBack ==
    (pc = "fatal" /\ err \in DbOps) => txn # "open"

(* C9 as stated: when a configuration error ends the run, no connection was *)
(* attempted and no statement was executed.                                 *)
C9_ConfigErrorBeforeConnect ==
    err = "config" => calls = <<>>

(* C10 as stated: a spec with more than 3 segments stops the run: the loop  *)
(* never moves past it and the run never ends successfully.                 *)
C10_MalformedSpecIsFatal ==
    \A i \in 1..Len(tables) :
        Len(Split(tables[i])) > 3 => (idx <= i /\ pc # "done")

----------------------------------------------------------------------------
(* Identifiers and parsed specs, as the specification describes them *)

IdentChars == {"0", "1", "5", "_", "a", "b", "c", "d", "e", "r", "t", "u", "x"}

\* non-empty and made of letters, digits and underscores only
ValidIdentifier(name) ==
    Len(name) > 0 /\ \A i \in 1..Len(name) : name[i] \in IdentChars

\* ParseTable went past the format check of the spec at the loop position
NameChecked ==
    /\ pc \in {"begin", "exec", "commit", "fatal"}
    /\ err \in {"none", "config"} \cup DbOps
    /\ Len(Split(tables[idx])) <= 3

(* C11 as stated: the table name and the timestamp column of every          *)
(* statement that was built are non-empty and consist of letters, digits    *)
(* and underscores only.                                                    *)
C11_InterpolatedIdentifiersValid ==
    \A i \in DOMAIN jobs :
        ValidIdentifier(jobs[i].table) /\ ValidIdentifier(jobs[i].column)

(* C12 as stated: for the name the validator was given, it answers true     *)
(* exactly when the name is non-empty and every character is a letter, a    *)
(* digit or an underscore.                                                  *)
C12_ValidatorIff ==
    NameChecked => (IsValidTName(tableName) <=> ValidIdentifier(tableName))

(* C13 as stated: a spec without the retentionDays segment is cleaned with  *)
(* retention 0 (cutoff = the run's start time), at every list position.     *)
C13_OmittedRetentionIsZero ==
    \A i \in DOMAIN jobs :
        Len(Split(tables[i])) < 3 =>
            (jobs[i].days = 0 /\ jobs[i].cutoff = now)

(* C14 as stated: the specs "t", "t:c", "t:c:5" and "t::5" parse to table   *)
(* "t", column "c" when given and "created_at" otherwise, retention 5 when  *)
(* given and 0 when omitted.                                                *)
C14_WellFormedSpecsParse ==
    \A i \in 1..Len(tables) :
        LET spec == tables[i]
            want(col, d) == /\ (i < idx \/ pc = "done") => Started(i)
                            /\ Started(i) =>
                                  /\ jobs[i].table = <<"t">>
                                  /\ jobs[i].column = col
                                  /\ jobs[i].days = d
        IN  /\ spec = <<"t">> => want(CreatedAt, 0)
            /\ spec = <<"t", ":", "c">> => want(ColC, 0)
            /\ spec = <<"t", ":", "c", ":", "5">> => want(ColC, 5)
            /\ spec = <<"t", ":", ":", "5">> => want(CreatedAt, 5)

(* C15 as stated: a spec whose retentionDays segment is negative never      *)
(* starts a job, and no statement is executed with a cutoff later than the  *)
(* run's start time.                                                        *)
C15_NegativeRetentionRejected ==
    /\ \A i \in DOMAIN jobs :
          LET parts == Split(tables[i])
          IN  ~(Len(parts) = 3 /\ Len(parts[3]) > 0 /\ parts[3][1] = "-")
    /\ \A k \in 1..Len(calls) :
          calls[k].op = "exec" => jobs[calls[k].idx].cutoff <= now

(* C16: tables are handled one after another in list order: the calls on   *)
(* the connection never go back to an earlier list position, the first      *)
(* transaction of a table is begun only after the previous table's loop     *)
(* ended with a committed batch that met the loop's end condition, and an   *)
(* open transaction always belongs to the table at the loop position.       *)
C16_TablesStrictlySequential ==
    /\ \A k \in 1..Len(calls) : \A m \in (k + 1)..Len(calls) :
          (calls[k].idx > 0 /\ calls[m].idx > 0) => calls[k].idx <= calls[m].idx
    /\ \A m \in 2..Len(calls) :
          (calls[m].idx > 0 /\ calls[m - 1].idx > 0
             /\ calls[m - 1].idx < calls[m].idx) =>
              /\ calls[m].op = "begin"
              /\ calls[m - 1].op = "commit"
              /\ calls[m - 1].ok
              /\ (calls[m - 1].rows = {} \/ batchSize = 0)
    /\ (txn = "open" /\ pc \in {"exec", "commit"}) =>
          /\ calls[Len(calls)].idx = idx
          /\ \A r \in pending : r \in InitDB[jobs[idx].table]

\* the loop of the second table runs after a batched loop of the first
C16_Witness ==
    /\ batchSize > 0
    /\ pc = "exec"
    /\ idx = 2
    /\ Cardinality(Committed(1)) >= 2

(* C17: with a positive timeout, when the deadline of a batch has elapsed   *)
(* while its statement is executing, the next step of the run is the        *)
(* failure of the statement: the transaction is rolled back, the database   *)
(* is unchanged, the run ends with a fatal error and makes no further call. *)
C17_DeadlineCancelsBatch ==
    [][ /\ (timeout > 0 /\ pc = "exec" /\ ctx.st = "expired") =>
              /\ pc' = "fatal"
              /\ err' = "exec"
              /\ txn' = "rolledback"
              /\ pending' = {}
              /\ db' = db
              /\ calls'[Len(calls')].op = "rollback"
              /\ Cardinality(CallsOf("begin", idx)') = Cardinality(CallsOf("begin", idx))
        /\ pc = "fatal" => calls' = calls ]_vars

\* the deadline elapsed during a valid statement and the run has stopped
C17_Witness ==
    /\ timeout > 0
    /\ pc = "fatal"
    /\ err = "exec"
    /\ ctx = [kind |-> "batch", st |-> "expired"]
    /\ txn = "rolledback"
    /\ StatementValid(db, query)
    /\ Remaining(idx) # {}

(* C18: with the timeout at zero, the context of every begin, execute and   *)
(* commit carries no deadline, so none of them is ever cut by elapsed time. *)
C18_ZeroTimeoutNoDeadline ==
    (timeout = 0 /\ (pc \in {"exec", "commit"} \/ err \in DbOps)) =>
        ctx = [kind |-> "background", st |-> "none"]

\* timeout zero: a statement that deleted rows awaits its commit
C18_Witness ==
    /\ timeout = 0
    /\ pc = "commit"
    /\ rowsAffected > 0

RECURSIVE TotalUpTo(_)
\* the rows reported deleted for the table being cleaned when log[k] was printed
TotalUpTo(k) ==
    IF k = 0 \/ log[k].what = "cleaning" THEN 0
    ELSE (IF log[k].what = "deleted" THEN log[k].n ELSE 0) + TotalUpTo(k - 1)

(* C19 as stated: the number reported with every committed batch is the     *)
(* table's running total: the sum of the rows of the batches committed for  *)
(* that table so far.                                                       *)
C19_RunningTotalReported ==
    \A k \in 1..Len(log) :
        log[k].what = "deleted" => log[k].n = TotalUpTo(k)

(* C20: when connecting or the ping has failed, the run has stopped with a  *)
(* fatal error after that one attempt: no call follows it, no transaction   *)
(* was begun, no statement was executed and the database is untouched.      *)
C20_NoDatabaseNoWork ==
    \A k \in 1..Len(calls) :
        (calls[k].op \in {"connect", "ping"} /\ ~calls[k].ok) =>
            /\ pc = "fatal"
            /\ k = Len(calls)
            /\ \A m \in 1..Len(calls) : calls[m].op \notin DbOps
            /\ Cardinality({m \in 1..Len(calls) : calls[m].op = calls[k].op}) = 1
            /\ jobs = <<>>
            /\ db = InitDB

\* the connection was made and the ping failed
C20_Witness ==
    /\ err = "ping"
    /\ conn
    /\ Len(calls) = 2

----------------------------------------------------------------------------
\* the rows missing from the database
Gone == UNION {InitDB[t] \ db[t] : t \in DOMAIN db}

\* the rows of all committed transactions of the run
AllCommitted ==
    UNION {calls[k].rows : k \in {m \in 1..Len(calls) :
                                    calls[m].op = "commit" /\ calls[m].ok}}

(* C21: every statement is executed directly after the successful begin of  *)
(* its own iteration, while that transaction is open; the rows missing from *)
(* the database are exactly the rows of committed transactions, so the rows *)
(* a statement selected are still stored while its transaction is open,     *)
(* after it was rolled back and after its commit failed.                    *)
C21_DeleteInsideOwnTransaction ==
    /\ \A k \in 1..Len(calls) :
          calls[k].op = "exec" =>
              /\ k > 1
              /\ calls[k - 1].op = "begin"
              /\ calls[k - 1].ok
              /\ calls[k - 1].idx = calls[k].idx
    /\ pc = "commit" => txn = "open"
    /\ Gone = AllCommitted
    /\ (pc = "commit" \/ err \in {"exec", "commit"}) =>
          \A r \in pending : r \in db[query.table]

\* the commit of a batch that selected rows failed
C21_Witness ==
    /\ err = "commit"
    /\ pending # {}
    /\ Gone # {}

(* C22: with batchSize = B > 0, in every state, a committed batch that      *)
(* deleted rows is followed by the begin of another iteration of the same   *)
(* table (or the loop stands at its top, about to begin it); a committed    *)
(* batch that deleted no row is the last call for its table and the run has *)
(* moved past the table; and the batch after one that deleted fewer than B  *)
(* rows deletes none.                                                       *)
C22_ContinueUntilZeroRows ==
    batchSize > 0 =>
        \A k \in 1..Len(calls) :
            (calls[k].op = "commit" /\ calls[k].ok) =>
                LET i == calls[k].idx
                    n == Cardinality(calls[k].rows)
                IN  /\ n > 0 =>
                          IF k = Len(calls)
                          THEN pc = "begin" /\ idx = i
                          ELSE calls[k + 1].op = "begin" /\ calls[k + 1].idx = i
                    /\ n = 0 =>
                          /\ idx > i
                          /\ \A m \in (k + 1)..Len(calls) : calls[m].idx # i
                    /\ (n > 0 /\ n < batchSize) =>
                          \A m \in (k + 1)..Len(calls) :
                              (calls[m].op = "exec" /\ calls[m].idx = i
                                 /\ calls[m].ok) => calls[m].rows = {}

\* a batch shorter than B was committed, then a batch of no rows ended the loop
C22_Witness ==
    /\ batchSize > 1
    /\ \E i \in DOMAIN jobs :
          /\ Finished(i)
          /\ \E k \in Committed(i) : \E m \in Committed(i) :
                /\ k < m
                /\ calls[k].rows # {}
                /\ Cardinality(calls[k].rows) < batchSize
                /\ calls[m].rows = {}

IsDeletedMsg(m) == m.what = "deleted"

IsRowCommit(c) == c.op = "commit" /\ c.ok /\ c.rows # {}

(* C23: in every state, the progress reports printed so far are, in order,  *)
(* the row counts of the batches whose commit has succeeded and that        *)
(* deleted rows: no batch is reported before its commit, and after a failed *)
(* commit the run has stopped and the rows of that batch were not reported. *)
C23_ReportOnlyAfterCommit ==
    LET reports == SelectSeq(log, IsDeletedMsg)
        commits == SelectSeq(calls, IsRowCommit)
    IN  /\ Len(reports) = Len(commits)
        /\ \A j \in 1..Len(reports) :
              reports[j].n = Cardinality(commits[j].rows)
        /\ err = "commit" =>
              /\ pc = "fatal"
              /\ log[Len(log)] = Msg("fatal", "commit", 0)
              /\ ~calls[Len(calls)].ok

\* one batch was committed and reported, the commit of the next one failed
C23_Witness ==
    /\ err = "commit"
    /\ pending # {}
    /\ Len(SelectSeq(log, IsDeletedMsg)) = 1

IsOpening(c) == c.op = "begin" /\ c.ok

IsClosing(c) == (c.op = "commit" /\ c.ok) \/ c.op = "rollback"

(* C25: in every state, the transactions begun exceed the transactions      *)
(* committed or rolled back by at most one, and every begin of the run      *)
(* directly follows either the start-up ping or the successful commit of    *)
(* the previous iteration.                                                  *)
C25_AtMostOneOpenTransaction ==
    /\ Len(SelectSeq(calls, IsOpening)) - Len(SelectSeq(calls, IsClosing))
          \in {0, 1}
    /\ txn = "open" <=>
          Len(SelectSeq(calls, IsOpening)) = Len(SelectSeq(calls, IsClosing)) + 1
    /\ \A k \in 1..Len(calls) :
          calls[k].op = "begin" =>
              /\ k > 1
              /\ \/ calls[k - 1].op = "ping" /\ calls[k - 1].ok
                 \/ calls[k - 1].op = "commit" /\ calls[k - 1].ok

\* the third transaction of a run is open: one of the next table
C25_Witness ==
    /\ txn = "open"
    /\ pc = "commit"
    /\ idx = 2
    /\ Len(SelectSeq(calls, IsOpening)) >= 3

(* C26: with a positive timeout, every begin of an iteration installs a new *)
(* live context of kind batch, whatever became of the context before it     *)
(* (the ping's, or an earlier iteration's that was cancelled), and every    *)
(* statement and commit runs under a batch context: a deadline never        *)
(* carries over from the ping or from one iteration to the next.            *)
C26_FreshDeadlinePerIteration ==
    /\ [](timeout > 0 =>
            /\ pc \in {"exec", "commit"} => ctx.kind = "batch"
            /\ pc = "exec" => ctx.st \in {"live", "expired"})
    /\ [][(timeout > 0 /\ pc = "begin" /\ pc' = "exec") =>
            /\ ctx' = [kind |-> "batch", st |-> "live"]
            /\ cancel' # "nil"]_vars

\* positive timeout: the run ended well after three or more iterations, each
\* under its own context
C26_Witness ==
    /\ timeout > 0
    /\ pc = "done"
    /\ err = "none"
    /\ ctx = [kind |-> "batch", st |-> "cancelled"]
    /\ Len(SelectSeq(calls, IsOpening)) >= 3

(* C28: with batchSize < 0 the statement has no LIMIT and binds the cutoff  *)
(* alone; no table ever has more than two transactions begun; a loop that   *)
(* ended over K > 0 qualifying rows committed two, the first deleting all K *)
(* rows and the second none, and over K = 0 it committed one; and every     *)
(* loop that starts ends, unless an error ends the run.                     *)
C28_NegativeBatchInv ==
    batchSize < 0 =>
        /\ pc \in {"begin", "exec", "commit"} => (~query.limit /\ Len(args) = 1)
        /\ \A i \in DOMAIN jobs :
              /\ Cardinality(CallsOf("begin", i)) <= 2
              /\ Finished(i) =>
                    LET first == CHOOSE k \in Committed(i) :
                                    \A m \in Committed(i) : k <= m
                    IN  /\ calls[first].rows = jobs[i].qual
                        /\ Remaining(i) = {}
                        /\ Cardinality(Committed(i)) =
                              (IF jobs[i].qual = {} THEN 1 ELSE 2)
                        /\ \A m \in Committed(i) \ {first} : calls[m].rows = {}

C28_NegativeBatchTerminates ==
    /\ []C28_NegativeBatchInv
    /\ (batchSize < 0 /\ pc = "begin")
          ~> (pc \in {"loop", "done"} \/ err # "none")

\* negative batch size: one loop ended over several rows in two
\* transactions, the next over none in one, and the run ended well
C28_Witness ==
    /\ batchSize < 0
    /\ pc = "done"
    /\ err = "none"
    /\ \E i \in DOMAIN jobs :
          Cardinality(jobs[i].qual) >= 2 /\ Cardinality(Committed(i)) = 2
    /\ \E i \in DOMAIN jobs :
          jobs[i].qual = {} /\ Cardinality(Committed(i)) = 1

----------------------------------------------------------------------------
(* The run beside other clients of the database *)

\* the rows other clients insert while the run is in a loop, stamped with the
\* time of the run's start
NewRows == {Row(7, Now, Now)}

\* the rows some statement of the run has selected
EverSelected == UNION {calls[k].rows : k \in 1..Len(calls)}

\* another client inserts a row, once, into the table the loop is cleaning
Insert ==
    /\ pc \in {"begin", "exec", "commit"}
    /\ query.table \in DOMAIN db
    /\ \E r \in NewRows :
         /\ \A t \in DOMAIN db : r \notin db[t]
         /\ r \notin EverSelected \cup pending
         /\ db' = [db EXCEPT ![query.table] = @ \cup {r}]
    /\ UNCHANGED <<flagVars, parseVars, pc, idx, ctx, cancel, conn, txn,
                   pending, rowsAffected, calls, log, err, jobs>>

ConcurrentNext == Next \/ Insert

\* the program keeps running; the other clients may or may not act
ConcurrentSpec == LoopInit /\ [][ConcurrentNext]_vars /\ WF_vars(Next)

InLoop == pc \in {"begin", "exec", "commit"}

(* C24: the run's time never changes after the start; each table's cutoff   *)
(* is that time minus the retention days the table's loop runs with; from   *)
(* the first begin of a table to the end of its loop the statement and its  *)
(* bound arguments stay as built; and no statement ever selects a row that  *)
(* another client inserted with a timestamp at or after the table's cutoff. *)
C24_CutoffFixedPerTable ==
    /\ [](/\ now = Now
          /\ \A i \in DOMAIN jobs : jobs[i].cutoff = AddDate(now, 0 - jobs[i].days)
          /\ InLoop => (args[1] = jobs[idx].cutoff /\ query.table = jobs[idx].table
                          /\ query.column = jobs[idx].column)
          /\ \A k \in 1..Len(calls) : \A r \in calls[k].rows \cap NewRows :
                ~(r.cols[jobs[calls[k].idx].column] >= jobs[calls[k].idx].cutoff))
    /\ [][/\ now' = now
          /\ (InLoop /\ pc' \in {"begin", "exec", "commit", "fatal"}) =>
                (query' = query /\ args' = args)]_vars

\* a row stamped at the cutoff, inserted by another client, is still stored
\* after a batched loop with that cutoff ended
C24_Witness ==
    /\ batchSize > 0
    /\ \E i \in DOMAIN jobs :
          /\ Finished(i)
          /\ jobs[i].cutoff = now
          /\ Cardinality(Committed(i)) >= 3
          /\ \E r \in NewRows \cap db[jobs[i].table] :
                r.cols[jobs[i].column] = jobs[i].cutoff

\* every row the other clients insert is at or after the cutoff of position i
InsertsAtOrAfterCutoff(i) ==
    \A r \in NewRows : r.cols[jobs[i].column] >= jobs[i].cutoff

(* C27: with batchSize > 0 and other clients inserting rows stamped at or   *)
(* after a table's cutoff, a loop of that table that ended has deleted      *)
(* exactly the rows that were older than the cutoff when it started, none   *)
(* of the inserted rows, and leaves no older row; and every such loop that  *)
(* starts ends, unless an error ends the run.                               *)
C27_ExactUnderInserts ==
    \A i \in DOMAIN jobs :
        (batchSize > 0 /\ Finished(i) /\ InsertsAtOrAfterCutoff(i)) =>
            /\ DeletedBy(i) = jobs[i].qual
            /\ DeletedBy(i) \cap NewRows = {}
            /\ Remaining(i) = {}

C27_TerminatesUnderInserts ==
    /\ []C27_ExactUnderInserts
    /\ (batchSize > 0 /\ pc = "begin" /\ InsertsAtOrAfterCutoff(idx))
          ~> (pc \in {"loop", "done"} \/ err # "none")

\* a batched loop ended after deleting rows while another client's row
\* arrived in its table
C27_Witness ==
    /\ batchSize > 0
    /\ err = "none"
    /\ \E i \in DOMAIN jobs :
          /\ Finished(i)
          /\ InsertsAtOrAfterCutoff(i)
          /\ Cardinality(DeletedBy(i)) >= 2
          /\ NewRows \subseteq db[jobs[i].table]

====
